---- MODULE Spec2Model ----
(***************************************************************************)
(* A model of the Bedrock gateway: the streaming response translator       *)
(* (gateway/server.py, stream_bedrock_response), the request translator    *)
(* (chat_completions, convert_messages), the credential resolver           *)
(* (auth/aws_auth.py, AWSAuthenticator) and the gateway process that ties  *)
(* them together (run_server, startup_event, request handlers).            *)
(***************************************************************************)
EXTENDS Integers, Sequences, FiniteSets, TLC

VARIABLES
    invoke,      \* what client.invoke_model_with_response_stream does
    events,      \* the provider's event stream (response["body"])
    consumed,    \* number of items pulled from the provider stream so far
    frames,      \* SSE frames yielded by stream_bedrock_response, in order
    gen,         \* position of the stream_bedrock_response generator
    stream_open, \* the provider's event stream has been handed out and is
                 \* neither read to its end nor closed
    env,         \* os.environ: the environment signals
    auth,        \* the AWSAuthenticator instance: region, _session, _method
    lastCall,    \* the last call made on the authenticator and how it ended
    pc,          \* position of the gateway process (main -> run_server -> uvicorn)
    resolutions, \* how many times authenticate has run in this process
    req,         \* the chat-completion request received
    http,        \* the HTTP response given to it
    provider_call, \* the provider call made for it: api, modelId, body, and
                   \* the response body invoke_model returned, if it returned one
    usage_history, \* UsageTracker.usage_history
    cost_history,  \* UsageTracker.cost_history
    clock,         \* datetime.utcnow(), in ticks
    calls,         \* per caller: where its record_usage call stands, its result,
                   \* and the positions at which its two entries were appended
    lastQuery      \* the last get_total_usage / get_total_cost call and its result

streamVars == <<invoke, events, consumed, frames, gen, stream_open>>

authVars == <<env, auth, lastCall>>

gatewayVars == <<pc, resolutions, req, http, provider_call>>

trackerVars == <<usage_history, cost_history, clock, calls, lastQuery>>

vars == <<invoke, events, consumed, frames, gen, stream_open, env, auth, lastCall,
          pc, resolutions, req, http, provider_call,
          usage_history, cost_history, clock, calls, lastQuery>>

(***************************************************************************)
(* Bounds                                                                  *)
(***************************************************************************)
MaxEvents == 3

MaxMessages == 2

GatewayMaxEvents == 1

MaxBlocks == 2

\* record_usage calls per run of the tracker
MaxRecords == 2

\* the last clock tick
MaxClock == 1

\* clock ticks in one day
DayTicks == 1

RECURSIVE SeqsUpTo(_, _)
SeqsUpTo(S, n) ==
    IF n = 0 THEN {<<>>}
    ELSE LET shorter == SeqsUpTo(S, n - 1)
         IN  shorter \cup {Append(s, x) : s \in {t \in shorter : Len(t) = n - 1}, x \in S}

Last(s) == s[Len(s)]

(***************************************************************************)
(* The provider event stream.                                              *)
(*   kind "nochunk" : an event without a "chunk" key                       *)
(*   kind "badjson" : a chunk whose bytes json.loads rejects               *)
(*   kind "raise"   : the stream iterator raises instead of delivering     *)
(*   kind "chunk"   : a chunk that parses to a JSON object                 *)
(***************************************************************************)
Texts == {"a", "b"}

ChunkTypes == {"content_block_delta", "message_stop"}

NoChunkEvent == [kind |-> "nochunk", hasDelta |-> FALSE, hasText |-> FALSE,
                 text |-> "", type |-> ""]

BadJsonEvent == [kind |-> "badjson", hasDelta |-> FALSE, hasText |-> FALSE,
                 text |-> "", type |-> ""]

RaiseEvent == [kind |-> "raise", hasDelta |-> FALSE, hasText |-> FALSE,
               text |-> "", type |-> ""]

ChunkEvents ==
    {[kind |-> "chunk", hasDelta |-> FALSE, hasText |-> FALSE, text |-> "", type |-> t]
        : t \in ChunkTypes}
    \cup {[kind |-> "chunk", hasDelta |-> TRUE, hasText |-> FALSE, text |-> "", type |-> t]
        : t \in ChunkTypes}
    \cup {[kind |-> "chunk", hasDelta |-> TRUE, hasText |-> TRUE, text |-> x, type |-> t]
        : x \in Texts, t \in ChunkTypes}

ProviderEvents == {NoChunkEvent, BadJsonEvent, RaiseEvent} \cup ChunkEvents

InvokeOutcomes == {"raise", "nobody", "stream"}

(***************************************************************************)
(* SSE frames                                                              *)
(***************************************************************************)
\* "data: [DONE]\n\n"
DoneFrame == [frame |-> "done", content |-> "", index |-> 0,
              finish_reason |-> "null", error |-> ""]

\* f"data: {json.dumps({'error': msg})}\n\n"
ErrorFrame(msg) == [frame |-> "error", content |-> "", index |-> 0,
                    finish_reason |-> "null", error |-> msg]

\* f"data: {json.dumps(sse_data)}\n\n" with sse_data built from delta["text"]
ContentFrame(text) == [frame |-> "content", content |-> text, index |-> 0,
                       finish_reason |-> "null", error |-> ""]

NoStreamMsg == "No response stream"

\* str(e) of the exception caught at the except clause
ExcMsg(e) == IF e.kind = "badjson" THEN "JSONDecodeError" ELSE "EventStreamError"

(***************************************************************************)
(* stream_bedrock_response, one step per provider event, suspended at      *)
(* each yield.                                                             *)
(***************************************************************************)
\* "chunk" in event, and json.loads(event["chunk"]["bytes"]) succeeds
ParsesAsChunk(e) == e.kind = "chunk"

\* a delta test written as the else-branch of the message_stop test
HasDeltaTextUnlessStop(e) == e.kind = "chunk" /\ e.hasDelta /\ e.hasText /\ e.type # "message_stop"

\* "delta" in chunk and "text" in delta
HasDeltaText(e) == ParsesAsChunk(e) /\ e.hasDelta /\ e.hasText

\* chunk.get("type") == "message_stop"
IsMessageStop(e) == ParsesAsChunk(e) /\ e.type = "message_stop"

\* a missing break: the loop goes on after the sentinel
AfterDoneNoBreak == "at_iter"

\* the statement after `yield "data: [DONE]\n\n"`: break
AfterDone == "finished"

\* an except clause that also closes the stream with the sentinel
OnExceptionThenDone(msg) == [frames |-> <<ErrorFrame(msg), DoneFrame>>, gen |-> "yield_error"]

\* except Exception as e: yield the error frame; the generator then ends
OnException(msg) == [frames |-> <<ErrorFrame(msg)>>, gen |-> "yield_error"]

\* a message_stop test that ends the loop without the sentinel
AfterDeltaNoSentinel(e) ==
    IF IsMessageStop(e)
    THEN [frames |-> <<>>, gen |-> "yield_done"]
    ELSE [frames |-> <<>>, gen |-> "at_iter"]

\* what follows the delta block of one chunk: the message_stop test
AfterDelta(e) ==
    IF IsMessageStop(e)
    THEN [frames |-> <<DoneFrame>>, gen |-> "yield_done"]
    ELSE [frames |-> <<>>, gen |-> "at_iter"]

\* first resumption: the provider call and the body test
StreamInvoke ==
    /\ gen = "created"
    /\ CASE invoke = "raise" ->
              /\ frames' = frames \o OnException("ClientError").frames
              /\ gen' = OnException("ClientError").gen
         [] invoke = "nobody" ->
              /\ frames' = Append(frames, ErrorFrame(NoStreamMsg))
              /\ gen' = "yield_nobody"
         [] OTHER ->
              /\ frames' = frames
              /\ gen' = "at_iter"
    /\ stream_open' = (invoke = "stream")
    /\ UNCHANGED <<invoke, events, consumed>>

\* one pass of `for event in stream`; a stream read to its end is released by
\* the transport, and no statement of the generator closes it otherwise
StreamNext ==
    /\ gen = "at_iter"
    /\ IF consumed = Len(events)
       THEN /\ gen' = "finished"
            /\ stream_open' = FALSE
            /\ UNCHANGED <<consumed, frames>>
       ELSE LET e == events[consumed + 1] IN
            /\ consumed' = consumed + 1
            /\ UNCHANGED stream_open
            /\ CASE e.kind \in {"raise", "badjson"} ->
                      /\ frames' = frames \o OnException(ExcMsg(e)).frames
                      /\ gen' = OnException(ExcMsg(e)).gen
                 [] e.kind = "nochunk" ->
                      /\ frames' = frames
                      /\ gen' = "at_iter"
                 [] OTHER ->
                      IF HasDeltaText(e)
                      THEN /\ frames' = Append(frames, ContentFrame(e.text))
                           /\ gen' = "yield_content"
                      ELSE /\ frames' = frames \o AfterDelta(e).frames
                           /\ gen' = AfterDelta(e).gen
    /\ UNCHANGED <<invoke, events>>

\* the consumer asks for the next frame while the generator is suspended at a yield
StreamResume ==
    /\ gen \in {"yield_content", "yield_done", "yield_error", "yield_nobody"}
    /\ CASE gen = "yield_content" ->
              /\ frames' = frames \o AfterDelta(events[consumed]).frames
              /\ gen' = AfterDelta(events[consumed]).gen
         [] gen = "yield_done" ->
              /\ frames' = frames
              /\ gen' = AfterDone
         [] OTHER ->
              /\ frames' = frames
              /\ gen' = "finished"
    /\ UNCHANGED <<invoke, events, consumed, stream_open>>

\* the consumer drops the generator while it is suspended (client disconnect):
\* GeneratorExit is not an Exception, so the except clause does not run
StreamClose ==
    /\ gen \in {"created", "yield_content", "yield_done", "yield_error", "yield_nobody"}
    /\ gen' = "closed"
    /\ UNCHANGED <<invoke, events, consumed, frames, stream_open>>

StreamInit ==
    /\ invoke \in InvokeOutcomes
    /\ events \in (IF invoke = "stream" THEN SeqsUpTo(ProviderEvents, MaxEvents) ELSE {<<>>})
    /\ consumed = 0
    /\ frames = <<>>
    /\ gen = "created"
    /\ stream_open = FALSE

StreamStep == StreamInvoke \/ StreamNext \/ StreamResume \/ StreamClose

\* no streaming response exists
StreamIdle ==
    /\ invoke = "stream"
    /\ events = <<>>
    /\ consumed = 0
    /\ frames = <<>>
    /\ gen = "none"
    /\ stream_open = FALSE

\* the finished generator of the previous response is discarded
StreamDrop ==
    /\ invoke' = "stream"
    /\ events' = <<>>
    /\ consumed' = 0
    /\ frames' = <<>>
    /\ gen' = "none"
    /\ stream_open' = FALSE

(***************************************************************************)
(* The environment (os.environ)                                            *)
(***************************************************************************)
Unset == "<unset>"

SignalNames == {"AWS_BEARER_TOKEN_BEDROCK", "AWS_PROFILE",
                "AWS_ACCESS_KEY_ID", "AWS_SECRET_ACCESS_KEY"}

EnvNames == SignalNames \cup {"AWS_REGION"}

\* a variable is unset, set to the empty string, or set to a value
SignalValues == {Unset, "", "x"}

RegionValues == {Unset, "eu-west-1"}

Environments ==
    {e \in [EnvNames -> SignalValues \cup RegionValues] :
        /\ e["AWS_REGION"] \in RegionValues
        /\ \A n \in SignalNames : e[n] \in SignalValues}

EmptyEnvironment == [n \in EnvNames |-> Unset]

\* the environments the whole-process specification starts from
GatewayEnvironments == {e \in Environments : \A n \in SignalNames : e[n] # ""}

\* the truth value of os.getenv(name): None and "" are both false
Truthy(v) == v \notin {Unset, ""}

\* os.getenv(name, default)
getenv(e, name, default) == IF e[name] = Unset THEN default ELSE e[name]

(***************************************************************************)
(* AWSAuthenticator                                                        *)
(***************************************************************************)
AuthMethods == {"aws_cli", "env_vars", "sso_profile", "bedrock_api_key"}

NoMethod == "None"

DefaultRegion == "us-east-1"

\* outcomes of one sts.get_caller_identity() call (or of building its client)
StsOutcomes == {"ok", "ClientError", "NoCredentialsError", "EndpointConnectionError"}

NoSession == [branch |-> "none", region |-> "", verified |-> FALSE]

\* boto3.Session(...) built by one of the construction branches; verified
\* records whether _verify_credentials' identity check has passed on it
NewSession(branch, region) == [branch |-> branch, region |-> region, verified |-> FALSE]

\* AWSAuthenticator.__init__
AWSAuthenticator(region) == [region |-> region, session |-> NoSession, method |-> NoMethod]

\* a detection that tests the SSO profile before the bearer key
detect_profile_first(e) ==
    IF Truthy(e["AWS_PROFILE"]) THEN "sso_profile"
    ELSE IF Truthy(e["AWS_BEARER_TOKEN_BEDROCK"]) THEN "bedrock_api_key"
    ELSE IF Truthy(e["AWS_ACCESS_KEY_ID"]) /\ Truthy(e["AWS_SECRET_ACCESS_KEY"]) THEN "env_vars"
    ELSE "aws_cli"

\* AWSAuthenticator._detect_auth_method
detect_auth_method(e) ==
    IF Truthy(e["AWS_BEARER_TOKEN_BEDROCK"]) THEN "bedrock_api_key"
    ELSE IF Truthy(e["AWS_PROFILE"]) THEN "sso_profile"
    ELSE IF Truthy(e["AWS_ACCESS_KEY_ID"]) /\ Truthy(e["AWS_SECRET_ACCESS_KEY"]) THEN "env_vars"
    ELSE "aws_cli"

\* AWSAuthenticator._authenticate_with_cli: the session, or the exception of
\* its identity test (NoCredentialsError is re-raised, anything else escapes)
authenticate_with_cli(self, e, cons) ==
    IF cons = "ok"
    THEN [session |-> NewSession("cli", self.region), raised |-> "none", warned |-> FALSE]
    ELSE [session |-> NoSession, raised |-> cons, warned |-> FALSE]

\* AWSAuthenticator._authenticate_with_env_vars: no identity test here
authenticate_with_env_vars(self, e, cons) ==
    IF ~Truthy(e["AWS_ACCESS_KEY_ID"]) \/ ~Truthy(e["AWS_SECRET_ACCESS_KEY"])
    THEN [session |-> NoSession, raised |-> "NoCredentialsError", warned |-> FALSE]
    ELSE [session |-> NewSession("env", getenv(e, "AWS_REGION", self.region)),
          raised |-> "none", warned |-> FALSE]

\* AWSAuthenticator._authenticate_with_profile
authenticate_with_profile(self, e, cons) ==
    IF ~Truthy(e["AWS_PROFILE"])
    THEN [session |-> NoSession, raised |-> "ValueError", warned |-> FALSE]
    ELSE IF cons = "ok"
    THEN [session |-> NewSession("profile", self.region), raised |-> "none", warned |-> FALSE]
    ELSE [session |-> NoSession, raised |-> cons, warned |-> FALSE]

\* an API-key branch that falls back to the CLI branch without a warning
authenticate_with_api_key_silent(self, e, cons) ==
    IF ~Truthy(e["AWS_BEARER_TOKEN_BEDROCK"])
    THEN [session |-> NoSession, raised |-> "ValueError", warned |-> FALSE]
    ELSE authenticate_with_cli(self, e, cons)

\* AWSAuthenticator._authenticate_with_api_key: warns, then the CLI branch
authenticate_with_api_key(self, e, cons) ==
    IF ~Truthy(e["AWS_BEARER_TOKEN_BEDROCK"])
    THEN [session |-> NoSession, raised |-> "ValueError", warned |-> FALSE]
    ELSE [authenticate_with_cli(self, e, cons) EXCEPT !.warned = TRUE]

\* AWSAuthenticator._verify_credentials: the exception it ends with ("none"
\* when the identity check passes); only ClientError is converted
verify_credentials(session, ver) ==
    IF session = NoSession THEN "ValueError"
    ELSE IF ver = "ok" THEN "none"
    ELSE IF ver = "ClientError" THEN "NoCredentialsError"
    ELSE ver

\* AWSAuthenticator.authenticate(method): cons and ver are the outcomes of the
\* identity calls made during construction and during verification
authenticate(self, method, e, cons, ver) ==
    LET m == IF method # NoMethod THEN method ELSE detect_auth_method(e)
        built == CASE m = "bedrock_api_key" -> authenticate_with_api_key(self, e, cons)
                   [] m = "sso_profile" -> authenticate_with_profile(self, e, cons)
                   [] m = "env_vars" -> authenticate_with_env_vars(self, e, cons)
                   [] OTHER -> authenticate_with_cli(self, e, cons)
        s1 == [self EXCEPT !.method = m]
    IN  IF built.raised # "none"
        THEN [self |-> s1, raised |-> built.raised, ret |-> NoSession,
              verify |-> "skipped", warned |-> built.warned]
        ELSE LET s2 == [s1 EXCEPT !.session = built.session]
                 exc == verify_credentials(s2.session, ver)
             IN  IF exc # "none"
                 THEN [self |-> s2, raised |-> exc, ret |-> NoSession,
                       verify |-> ver, warned |-> built.warned]
                 ELSE [self |-> [s2 EXCEPT !.session.verified = TRUE], raised |-> "none",
                       ret |-> [s2.session EXCEPT !.verified = TRUE],
                       verify |-> ver, warned |-> built.warned]

\* AWSAuthenticator.get_bedrock_client / get_bedrock_control_client: resolves
\* first when no session is held, then hands out a client of self._session
get_bedrock_client(self, e, cons, ver) ==
    IF self.session = NoSession
    THEN LET r == authenticate(self, NoMethod, e, cons, ver)
         IN  [self |-> r.self, raised |-> r.raised, resolved |-> TRUE,
              client |-> IF r.raised = "none" THEN r.self.session ELSE NoSession]
    ELSE [self |-> self, raised |-> "none", resolved |-> FALSE, client |-> self.session]

NoCall == [op |-> "none", arg |-> NoMethod, raised |-> "none", ret |-> NoSession,
           verify |-> "skipped", warned |-> FALSE, detected |-> NoMethod]

\* a direct call of _detect_auth_method
DetectAuthMethod ==
    /\ lastCall' = [NoCall EXCEPT !.op = "_detect_auth_method",
                                  !.detected = detect_auth_method(env)]
    /\ UNCHANGED <<env, auth>>

\* a call of authenticate, with or without an explicit method
Authenticate ==
    \E method \in AuthMethods \cup {NoMethod}, cons \in StsOutcomes, ver \in StsOutcomes :
        LET r == authenticate(auth, method, env, cons, ver)
        IN  /\ auth' = r.self
            /\ lastCall' = [op |-> "authenticate", arg |-> method, raised |-> r.raised,
                            ret |-> r.ret, verify |-> r.verify, warned |-> r.warned,
                            detected |-> NoMethod]
            /\ UNCHANGED env

\* a direct call of _authenticate_with_env_vars
AuthenticateWithEnvVars ==
    LET r == authenticate_with_env_vars(auth, env, "ok")
    IN  /\ lastCall' = [NoCall EXCEPT !.op = "_authenticate_with_env_vars",
                                      !.raised = r.raised, !.ret = r.session]
        /\ UNCHANGED <<env, auth>>

\* a call of get_bedrock_client or get_bedrock_control_client
GetBedrockClient ==
    \E cons \in StsOutcomes, ver \in StsOutcomes :
        LET r == get_bedrock_client(auth, env, cons, ver)
        IN  /\ auth' = r.self
            /\ lastCall' = [NoCall EXCEPT !.op = "get_bedrock_client",
                                          !.raised = r.raised, !.ret = r.client]
            /\ UNCHANGED env

AuthIdle ==
    /\ env = EmptyEnvironment
    /\ auth = AWSAuthenticator(DefaultRegion)
    /\ lastCall = NoCall



(***************************************************************************)
(* Requests (ChatCompletionRequest, ChatMessage)                           *)
(***************************************************************************)
\* Optional[T]: None is <<>>, a value v is <<v>>
None == <<>>

Some(v) == <<v>>

\* ChatMessage.role is any string
Roles == {"system", "user", "assistant", "tool"}

Contents == {"x", "y"}

ChatMessages == [role : Roles, content : Contents]

\* a model identifier, as the pieces around the marker "anthropic.claude"
Marker == "anthropic.claude"

SonnetId == <<Marker, "-sonnet-4-5-20250929-v1:0">>

HaikuId == <<Marker, "-haiku-4-5-20251001-v1:0">>

ModelNames == {<<"claude-sonnet-4.5">>, <<"gpt-3.5-turbo">>, <<"llama-3">>,
               <<"us.", Marker, "-3-opus">>}

\* every kind of model identifier: each alias, unknown names, the empty
\* string, and identifiers that contain the marker
AllModelNames ==
    ModelNames \cup {<<"claude-haiku-4.5">>, <<"gpt-4">>, <<>>, <<"gpt-4", "-turbo">>,
                     SonnetId, HaikuId}

\* temperature and top_p in tenths
Temperatures == {0, 10}

MaxTokensValues == {None, Some(100)}

TopPValues == {None, Some(0), Some(5)}

StopValues == {None, Some(<<>>), Some(<<"END">>)}

ChatCompletionRequests ==
    [model : ModelNames, messages : SeqsUpTo(ChatMessages, MaxMessages),
     temperature : Temperatures, max_tokens : MaxTokensValues, stream : BOOLEAN,
     top_p : TopPValues, stop : StopValues]

NoRequest == [model |-> <<>>, messages |-> <<>>, temperature |-> 10, max_tokens |-> None,
              stream |-> FALSE, top_p |-> None, stop |-> None]

(***************************************************************************)
(* Request and response translation                                        *)
(***************************************************************************)
\* model_mapping
ModelMapping(name) ==
    CASE name = <<"claude-sonnet-4.5">> -> Some(SonnetId)
      [] name = <<"claude-haiku-4.5">> -> Some(HaikuId)
      [] name = <<"gpt-4">> -> Some(SonnetId)
      [] name = <<"gpt-3.5-turbo">> -> Some(HaikuId)
      [] OTHER -> None

\* a mapper whose fallback is an alias instead of a provider id
map_model_name_alias_default(openai_model) ==
    IF \E i \in DOMAIN openai_model : openai_model[i] = Marker
    THEN openai_model
    ELSE IF ModelMapping(openai_model) # None
    THEN ModelMapping(openai_model)[1]
    ELSE <<"claude-sonnet-4.5">>

\* map_model_name
map_model_name(openai_model) ==
    IF \E i \in DOMAIN openai_model : openai_model[i] = Marker
    THEN openai_model
    ELSE IF ModelMapping(openai_model) # None
    THEN ModelMapping(openai_model)[1]
    ELSE SonnetId

\* the state of convert_messages' loop after the messages seen so far
RECURSIVE convert_loop(_, _)
convert_loop(messages, n) ==
    IF n = 0 THEN [bedrock_messages |-> <<>>, system_message |-> None]
    ELSE LET st == convert_loop(messages, n - 1)
             msg == messages[n]
         IN  IF msg.role = "system"
             THEN [st EXCEPT !.system_message = Some(msg.content)]
             ELSE IF msg.role \in {"user", "assistant"}
             THEN [st EXCEPT !.bedrock_messages =
                      Append(@, [role |-> msg.role, content |-> msg.content])]
             ELSE st

\* a convert_messages that drops only the system messages
convert_messages_keep_others(messages) ==
    SelectSeq(messages, LAMBDA m : m.role # "system")

\* convert_messages: builds result (messages plus system) and returns only
\* the message list
convert_messages(messages) ==
    LET st == convert_loop(messages, Len(messages))
        result == IF st.system_message # None /\ st.system_message[1] # ""
                  THEN [messages |-> st.bedrock_messages, system |-> st.system_message[1]]
                  ELSE [messages |-> st.bedrock_messages]
    IN  st.bedrock_messages

DefaultMaxTokens == 4096

\* chat_completions, lines 157-172: the provider request body
bedrock_request_of(request) ==
    LET base == [anthropic_version |-> "bedrock-2023-05-31",
                 max_tokens |-> IF request.max_tokens # None /\ request.max_tokens[1] # 0
                                THEN request.max_tokens[1] ELSE DefaultMaxTokens,
                 messages |-> convert_messages(request.messages),
                 temperature |-> request.temperature]
        withTopP == IF request.top_p # None /\ request.top_p[1] # 0
                    THEN ("top_p" :> request.top_p[1]) @@ base ELSE base
    IN  IF request.stop # None /\ request.stop[1] # <<>>
        THEN ("stop_sequences" :> request.stop[1]) @@ withTopP ELSE withTopP

\* a provider response body: content blocks and usage, either possibly absent
TextBlock(t) == [type |-> "text", text |-> t]

SampleResponse == [content |-> Some(<<TextBlock("hello")>>),
                   usage |-> Some([input_tokens |-> Some(5), output_tokens |-> Some(1)])]

\* content blocks of a provider response
BlockTexts == {"h", "i"}

ContentBlocks == [type : {"text", "tool_use"}, text : BlockTexts]

TokenCounts == {0, 5, 7}

\* the usage block: absent, or with either count possibly absent
UsageBlocks ==
    {None} \cup {Some(u) : u \in [input_tokens : {None} \cup {Some(n) : n \in TokenCounts},
                                   output_tokens : {None} \cup {Some(n) : n \in TokenCounts}]}

\* json.loads(response["body"].read())
ProviderResponses ==
    [content : {None} \cup {Some(bs) : bs \in SeqsUpTo(ContentBlocks, MaxBlocks)},
     usage : UsageBlocks]

\* a concatenation that puts each new block in front
RECURSIVE concat_text_prepending(_, _)
concat_text_prepending(blocks, n) ==
    IF n = 0 THEN ""
    ELSE IF blocks[n].type = "text"
    THEN blocks[n].text \o concat_text_prepending(blocks, n - 1)
    ELSE concat_text_prepending(blocks, n - 1)

\* content = ""; for block in content: if block["type"] == "text": content += block["text"]
\* (the value after the first n blocks)
RECURSIVE concat_text(_, _)
concat_text(blocks, n) ==
    IF n = 0 THEN ""
    ELSE IF blocks[n].type = "text"
    THEN concat_text(blocks, n - 1) \o blocks[n].text
    ELSE concat_text(blocks, n - 1)

OrZero(opt) == IF opt = None THEN 0 ELSE opt[1]

\* bedrock_response.get("usage", {}).get(key, 0)
usage_get(bedrock_response, key) ==
    IF bedrock_response.usage = None THEN 0 ELSE OrZero(bedrock_response.usage[1][key])

\* convert_to_openai_format
convert_to_openai_format(bedrock_response, model_id, original_model) ==
    LET content == IF bedrock_response.content # None
                   THEN concat_text(bedrock_response.content[1],
                                    Len(bedrock_response.content[1]))
                   ELSE ""
    IN  [object |-> "chat.completion",
         model |-> original_model,
         choices |-> <<[index |-> 0,
                        message |-> [role |-> "assistant", content |-> content],
                        finish_reason |-> "stop"]>>,
         usage |-> [prompt_tokens |-> usage_get(bedrock_response, "input_tokens"),
                    completion_tokens |-> usage_get(bedrock_response, "output_tokens"),
                    total_tokens |-> usage_get(bedrock_response, "input_tokens")
                                     + usage_get(bedrock_response, "output_tokens")]]


(***************************************************************************)
(* UsageTracker (monitoring/tracker.py)                                    *)
(* Costs are in units of 10^-8 dollars: tokens / 1_000_000 * price is      *)
(* tokens * (price in cents) of these units.                               *)
(***************************************************************************)
UnknownModel == <<"unknown-model">>

\* PRICING, in cents per million tokens
PRICING(model_id) ==
    CASE model_id = SonnetId -> Some([input |-> 300, output |-> 1500])
      [] model_id = HaikuId -> Some([input |-> 25, output |-> 125])
      [] OTHER -> None

\* datetime.isoformat() and datetime.fromisoformat(): a non-empty string that
\* parses back to the same instant
isoformat(t) == Some(t)

fromisoformat(ts) == ts[1]

\* a TokenUsage whose total is left at its default
TokenUsage_no_total(input_tokens, output_tokens, total_tokens, timestamp, now) ==
    [input_tokens |-> input_tokens, output_tokens |-> output_tokens,
     total_tokens |-> total_tokens,
     timestamp |-> IF timestamp = None THEN isoformat(now) ELSE timestamp]

\* TokenUsage(...) with __post_init__
TokenUsage(input_tokens, output_tokens, total_tokens, timestamp, now) ==
    [input_tokens |-> input_tokens, output_tokens |-> output_tokens,
     total_tokens |-> IF total_tokens = 0 THEN input_tokens + output_tokens
                      ELSE total_tokens,
     timestamp |-> IF timestamp = None THEN isoformat(now) ELSE timestamp]

\* CostMetrics(...) with __post_init__
CostMetrics(model_id, input_cost, output_cost, total_cost, timestamp, now) ==
    [model_id |-> model_id, input_cost |-> input_cost, output_cost |-> output_cost,
     total_cost |-> IF total_cost = 0 THEN input_cost + output_cost ELSE total_cost,
     timestamp |-> IF timestamp = None THEN isoformat(now) ELSE timestamp]

\* a cost computation that falls back to the sonnet prices
calculate_cost_sonnet_fallback(model_id, input_tokens, output_tokens) ==
    LET pricing == IF PRICING(model_id) # None THEN PRICING(model_id)[1]
                   ELSE PRICING(SonnetId)[1]
        input_cost == input_tokens * pricing.input
        output_cost == output_tokens * pricing.output
    IN  [input_cost |-> input_cost, output_cost |-> output_cost,
         total_cost |-> input_cost + output_cost]

\* UsageTracker._calculate_cost
calculate_cost(model_id, input_tokens, output_tokens) ==
    LET pricing == IF PRICING(model_id) # None THEN PRICING(model_id)[1]
                   ELSE PRICING(HaikuId)[1]
        input_cost == input_tokens * pricing.input
        output_cost == output_tokens * pricing.output
    IN  [input_cost |-> input_cost, output_cost |-> output_cost,
         total_cost |-> input_cost + output_cost]

RECURSIVE SumOf(_, _)
SumOf(s, field) == IF s = <<>> THEN 0 ELSE Head(s)[field] + SumOf(Tail(s), field)

\* the entries of a history stamped at or after the cutoff
Recent(history, days, now) ==
    SelectSeq(history, LAMBDA x : fromisoformat(x.timestamp) >= now - days * DayTicks)

\* UsageTracker.get_total_usage
get_total_usage(history, days, now) ==
    LET recent_usage == Recent(history, days, now)
    IN  [op |-> "get_total_usage", period_days |-> days,
         total_input |-> SumOf(recent_usage, "input_tokens"),
         total_output |-> SumOf(recent_usage, "output_tokens"),
         total |-> SumOf(recent_usage, "total_tokens"),
         request_count |-> Len(recent_usage)]

\* UsageTracker.get_total_cost
get_total_cost(history, days, now) ==
    LET recent_costs == Recent(history, days, now)
    IN  [op |-> "get_total_cost", period_days |-> days,
         total_input |-> SumOf(recent_costs, "input_cost"),
         total_output |-> SumOf(recent_costs, "output_cost"),
         total |-> SumOf(recent_costs, "total_cost"),
         request_count |-> Len(recent_costs)]

Callers == {1, 2}

\* the record_usage arguments drawn: model_id, input_tokens, output_tokens
TrackerCalls ==
    {[model_id |-> SonnetId, input_tokens |-> 1000000, output_tokens |-> 0],
     [model_id |-> HaikuId, input_tokens |-> 0, output_tokens |-> 0],
     [model_id |-> UnknownModel, input_tokens |-> 1000, output_tokens |-> 1000]}

QueryDays == {0, 1}

IdleCall == [at |-> "idle"]

NoQuery == [op |-> "none", period_days |-> 0, total_input |-> 0, total_output |-> 0,
            total |-> 0, request_count |-> 0]

\* the calls begun so far
Started == Len(usage_history)

\* record_usage, lines 93-98: build the TokenUsage and append it
RecordUsageStart(c) ==
    /\ calls[c].at # "costing"
    /\ Started < MaxRecords
    /\ \E a \in TrackerCalls :
          LET usage == TokenUsage(a.input_tokens, a.output_tokens, 0, None, clock)
          IN  /\ usage_history' = Append(usage_history, usage)
              /\ calls' = [calls EXCEPT ![c] = [at |-> "costing", args |-> a, usage |-> usage,
                                                usage_at |-> Len(usage_history) + 1]]
    /\ UNCHANGED <<cost_history, clock, lastQuery>>

\* record_usage, lines 100-118: compute the cost, append the CostMetrics, return
RecordUsageFinish(c) ==
    /\ calls[c].at = "costing"
    /\ LET a == calls[c].args
           cost == calculate_cost(a.model_id, a.input_tokens, a.output_tokens)
           cost_metrics == CostMetrics(a.model_id, cost.input_cost, cost.output_cost,
                                       cost.total_cost, None, clock)
       IN  /\ cost_history' = Append(cost_history, cost_metrics)
           /\ calls' = [calls EXCEPT ![c] = [at |-> "returned", args |-> a,
                                             usage |-> calls[c].usage,
                                             usage_at |-> calls[c].usage_at,
                                             cost |-> cost_metrics,
                                             cost_at |-> Len(cost_history) + 1]]
    /\ UNCHANGED <<usage_history, clock, lastQuery>>

GetTotalUsage ==
    /\ \E days \in QueryDays : lastQuery' = get_total_usage(usage_history, days, clock)
    /\ UNCHANGED <<usage_history, cost_history, clock, calls>>

GetTotalCost ==
    /\ \E days \in QueryDays : lastQuery' = get_total_cost(cost_history, days, clock)
    /\ UNCHANGED <<usage_history, cost_history, clock, calls>>

\* time passes
Tick ==
    /\ clock < MaxClock
    /\ clock' = clock + 1
    /\ UNCHANGED <<usage_history, cost_history, calls, lastQuery>>

\* UsageTracker.__init__
TrackerInit ==
    /\ usage_history = <<>>
    /\ cost_history = <<>>
    /\ clock = 0
    /\ calls = [c \in Callers |-> IdleCall]
    /\ lastQuery = NoQuery

\* no tracker is in use
TrackerIdle == TrackerInit

TrackerStep ==
    \/ \E c \in Callers : RecordUsageStart(c)
    \/ \E c \in Callers : RecordUsageFinish(c)
    \/ GetTotalUsage
    \/ GetTotalCost
    \/ Tick

(***************************************************************************)
(* The gateway process                                                     *)
(***************************************************************************)
\* authenticator = None
NoAuthenticator == [region |-> "<None>", session |-> NoSession, method |-> NoMethod]

NoResponse == [status |-> 0, kind |-> "none", detail |-> "", upstream |-> "none"]

NoProviderCall == [api |-> "none", modelId |-> <<>>]

ErrorResponse(msg, upstream) ==
    [status |-> 500, kind |-> "error", detail |-> msg, upstream |-> upstream]

\* the outcomes of an identity call, where one is made
IdentityOutcomes(self) == IF self.session = NoSession THEN StsOutcomes ELSE {"ok"}

\* initialize_authenticator(region): a fresh authenticator, then authenticate()
initialize_authenticator(region, e, cons, ver) ==
    authenticate(AWSAuthenticator(region), NoMethod, e, cons, ver)

\* main -> run_server: initialize_authenticator, then uvicorn.run
RunServer ==
    /\ pc = "boot"
    /\ \E cons \in StsOutcomes, ver \in StsOutcomes :
          LET r == initialize_authenticator(getenv(env, "AWS_REGION", DefaultRegion),
                                            env, cons, ver)
          IN  /\ auth' = r.self
              /\ pc' = IF r.raised = "none" THEN "uvicorn" ELSE "exited"
    /\ resolutions' = resolutions + 1
    /\ UNCHANGED <<env, lastCall, req, http, provider_call>>

\* startup_event, run by uvicorn before the first request
StartupEvent ==
    /\ pc = "uvicorn"
    /\ \E cons \in StsOutcomes, ver \in StsOutcomes :
          LET r == initialize_authenticator(getenv(env, "AWS_REGION", DefaultRegion),
                                            env, cons, ver)
          IN  /\ auth' = r.self
              /\ pc' = IF r.raised = "none" THEN "serving" ELSE "exited"
    /\ resolutions' = resolutions + 1
    /\ UNCHANGED <<env, lastCall, req, http, provider_call>>

\* GET /health and GET /v1/models: get_bedrock_control_client, then one
\* list_foundation_models call; /health answers 200 whatever happens
ControlRequest ==
    /\ pc = "serving"
    /\ \E path \in {"/health", "/v1/models"}, cons \in IdentityOutcomes(auth),
          ver \in IdentityOutcomes(auth), out \in {"ok", "raise"} :
          LET c == get_bedrock_client(auth, env, cons, ver)
              failed == c.raised # "none" \/ out = "raise"
          IN  /\ auth' = c.self
              /\ resolutions' = resolutions + (IF c.resolved THEN 1 ELSE 0)
              /\ http' = IF failed /\ path = "/v1/models"
                         THEN ErrorResponse(IF c.raised # "none" THEN c.raised ELSE "ClientError",
                                            IF c.raised # "none" THEN "none" ELSE "failed")
                         ELSE [status |-> 200, kind |-> "json", detail |-> "",
                               upstream |-> IF c.raised # "none" THEN "none"
                                            ELSE IF out = "raise" THEN "failed" ELSE "ok"]
    /\ req' = NoRequest
    /\ provider_call' = NoProviderCall
    /\ UNCHANGED <<env, lastCall, pc>>

\* POST /v1/chat/completions for request r. out is what invoke_model does,
\* resp the body it returns; inv and evs are what the streaming call will do
\* once the StreamingResponse starts iterating the generator.
chat_completions(r, cons, ver, out, resp, inv, evs) ==
    /\ pc = "serving"
    /\ gen \in {"none", "finished", "closed"}
    /\ req' = r
    /\ IF auth = NoAuthenticator
       THEN /\ http' = ErrorResponse("Authenticator not initialized", "none")
            /\ provider_call' = NoProviderCall
            /\ StreamDrop
            /\ UNCHANGED <<auth, resolutions>>
       ELSE LET model_id == map_model_name(r.model)
                bedrock_request == bedrock_request_of(r)
                c == get_bedrock_client(auth, env, cons, ver)
            IN  /\ auth' = c.self
                /\ resolutions' = resolutions + (IF c.resolved THEN 1 ELSE 0)
                /\ IF c.raised # "none"
                   THEN /\ http' = ErrorResponse(c.raised, "none")
                        /\ provider_call' = NoProviderCall
                        /\ StreamDrop
                   ELSE IF r.stream
                   THEN /\ http' = [status |-> 200, kind |-> "stream", detail |-> "",
                                    upstream |-> "pending"]
                        /\ provider_call' = [api |-> "invoke_model_with_response_stream",
                                             modelId |-> model_id, body |-> bedrock_request]
                        /\ invoke' = inv
                        /\ events' = (IF inv = "stream" THEN evs ELSE <<>>)
                        /\ consumed' = 0
                        /\ frames' = <<>>
                        /\ gen' = "created"
                        /\ stream_open' = FALSE
                   ELSE /\ provider_call' =
                              IF out = "raise"
                              THEN [api |-> "invoke_model", modelId |-> model_id,
                                    body |-> bedrock_request]
                              ELSE [api |-> "invoke_model", modelId |-> model_id,
                                    body |-> bedrock_request, response |-> resp]
                        /\ http' = IF out = "raise"
                                   THEN ErrorResponse("ClientError", "failed")
                                   ELSE [status |-> 200, kind |-> "json", detail |-> "",
                                         upstream |-> "ok",
                                         body |-> convert_to_openai_format(resp, model_id, r.model)]
                        /\ StreamDrop
    /\ UNCHANGED <<env, lastCall, pc>>
    /\ UNCHANGED trackerVars

\* the requests the whole-process specification draws from
GatewayRequests ==
    {[NoRequest EXCEPT !.model = <<"claude-sonnet-4.5">>, !.messages = ms, !.stream = st] :
        ms \in {<<[role |-> "user", content |-> "x"]>>,
                <<[role |-> "system", content |-> "y"], [role |-> "user", content |-> "x"]>>},
        st \in BOOLEAN}

\* what the provider does with the call of request r: invoke_model answers or
\* raises; the streaming call raises, returns no body, or returns a stream
ProviderBehaviours(r) ==
    IF r.stream
    THEN {[out |-> "ok", inv |-> i, evs |-> <<>>] : i \in {"raise", "nobody"}}
         \cup {[out |-> "ok", inv |-> "stream", evs |-> es] :
                   es \in SeqsUpTo(ProviderEvents, GatewayMaxEvents)}
    ELSE {[out |-> o, inv |-> "stream", evs |-> <<>>] : o \in {"ok", "raise"}}

ChatCompletions ==
    \E r \in GatewayRequests, cons \in IdentityOutcomes(auth), ver \in IdentityOutcomes(auth) :
        \E b \in ProviderBehaviours(r) :
            chat_completions(r, cons, ver, b.out, SampleResponse, b.inv, b.evs)

GatewayIdle ==
    /\ pc = "none"
    /\ resolutions = 0
    /\ req = NoRequest
    /\ http = NoResponse
    /\ provider_call = NoProviderCall

InitGateway ==
    /\ env \in GatewayEnvironments
    /\ auth = NoAuthenticator
    /\ lastCall = NoCall
    /\ pc = "boot"
    /\ resolutions = 0
    /\ req = NoRequest
    /\ http = NoResponse
    /\ provider_call = NoProviderCall
    /\ StreamIdle
    /\ TrackerIdle

NextGateway ==
    \/ RunServer /\ UNCHANGED streamVars /\ UNCHANGED trackerVars
    \/ StartupEvent /\ UNCHANGED streamVars /\ UNCHANGED trackerVars
    \/ ControlRequest /\ UNCHANGED streamVars /\ UNCHANGED trackerVars
    \/ ChatCompletions
    \/ StreamStep /\ UNCHANGED authVars /\ UNCHANGED gatewayVars /\ UNCHANGED trackerVars

SpecGateway == InitGateway /\ [][NextGateway]_vars

\* a gateway that is up: both initialisations succeeded under AWS CLI credentials
ServingAuthenticator ==
    initialize_authenticator(DefaultRegion, EmptyEnvironment, "ok", "ok").self

\* one request arrives at a serving gateway and is answered
InitRequests ==
    /\ env = EmptyEnvironment
    /\ auth = ServingAuthenticator
    /\ lastCall = NoCall
    /\ pc = "serving"
    /\ resolutions = 2
    /\ req \in ChatCompletionRequests
    /\ http = NoResponse
    /\ provider_call = NoProviderCall
    /\ StreamIdle
    /\ TrackerIdle

AnswerRequest ==
    /\ http = NoResponse
    /\ \E out \in {"ok", "raise"} :
          chat_completions(req, "ok", "ok", out, SampleResponse, "stream", <<>>)

NextRequests == AnswerRequest

SpecRequests == InitRequests /\ [][NextRequests]_vars

\* the non-streaming requests whose provider response is drawn in full
ResponseRequests ==
    {[NoRequest EXCEPT !.model = m, !.messages = <<[role |-> "user", content |-> "x"]>>] :
        m \in AllModelNames}

\* one non-streaming request arrives at a serving gateway; the provider answers
InitResponse ==
    /\ env = EmptyEnvironment
    /\ auth = ServingAuthenticator
    /\ lastCall = NoCall
    /\ pc = "serving"
    /\ resolutions = 2
    /\ req \in ResponseRequests
    /\ http = NoResponse
    /\ provider_call = NoProviderCall
    /\ StreamIdle
    /\ TrackerIdle

AnswerWithResponse ==
    /\ http = NoResponse
    /\ \E resp \in ProviderResponses :
          chat_completions(req, "ok", "ok", "ok", resp, "stream", <<>>)

NextResponse == AnswerWithResponse

SpecResponse == InitResponse /\ [][NextResponse]_vars

(***************************************************************************)
(* Specifications                                                          *)
(***************************************************************************)
InitAuth ==
    /\ env \in Environments
    /\ auth = AWSAuthenticator(DefaultRegion)
    /\ lastCall = NoCall
    /\ StreamIdle
    /\ GatewayIdle
    /\ TrackerIdle

NextAuth ==
    \/ DetectAuthMethod /\ UNCHANGED streamVars /\ UNCHANGED gatewayVars /\ UNCHANGED trackerVars
    \/ Authenticate /\ UNCHANGED streamVars /\ UNCHANGED gatewayVars /\ UNCHANGED trackerVars
    \/ AuthenticateWithEnvVars /\ UNCHANGED streamVars /\ UNCHANGED gatewayVars /\ UNCHANGED trackerVars
    \/ GetBedrockClient /\ UNCHANGED streamVars /\ UNCHANGED gatewayVars /\ UNCHANGED trackerVars

SpecAuth == InitAuth /\ [][NextAuth]_vars

InitStream == StreamInit /\ AuthIdle /\ GatewayIdle /\ TrackerIdle

NextStream == StreamStep /\ UNCHANGED authVars /\ UNCHANGED gatewayVars /\ UNCHANGED trackerVars

SpecStream == InitStream /\ [][NextStream]_vars

InitTracker == TrackerInit /\ StreamIdle /\ AuthIdle /\ GatewayIdle

NextTracker ==
    TrackerStep /\ UNCHANGED streamVars /\ UNCHANGED authVars /\ UNCHANGED gatewayVars

SpecTracker == InitTracker /\ [][NextTracker]_vars

(***************************************************************************)
(* Claims about the stream translator (checked under SpecStream)           *)
(***************************************************************************)
FramesOfKind(k) == SelectSeq(frames, LAMBDA f : f.frame = k)

StopAt(i) == events[i].kind = "chunk" /\ events[i].type = "message_stop"

FailsAt(i) == events[i].kind \in {"raise", "badjson"}

TextAt(i) == events[i].kind = "chunk" /\ events[i].hasDelta /\ events[i].hasText

\* the consumed events that carry a delta with a text fragment, in arrival order
ConsumedTextEvents ==
    SelectSeq(SubSeq(events, 1, consumed),
              LAMBDA e : e.kind = "chunk" /\ e.hasDelta /\ e.hasText)

\* C2: the sentinel frame is emitted at most once, no frame of any kind follows
\* it, and no provider event after the first message_stop event is consumed.
C2_SentinelOnceNothingAfter ==
    /\ Len(FramesOfKind("done")) <= 1
    /\ \A i \in DOMAIN frames : frames[i].frame = "done" => i = Len(frames)
    /\ \A i \in 1..consumed : StopAt(i) => i = consumed

C2_Witness ==
    /\ gen = "finished"
    /\ Len(frames) >= 2
    /\ Last(frames) = DoneFrame
    /\ consumed < Len(events)

\* C3: the content frames correspond one to one, in arrival order, to the
\* consumed events carrying a delta text; each carries that event's text with
\* finish_reason null and index 0.
C3_ContentFramesMatchDeltas ==
    LET cf == FramesOfKind("content")
        te == ConsumedTextEvents
    IN  /\ Len(cf) = Len(te)
        /\ \A i \in DOMAIN cf :
              /\ cf[i].content = te[i].text
              /\ cf[i].finish_reason = "null"
              /\ cf[i].index = 0

C3_Witness ==
    /\ gen = "finished"
    /\ frames = <<ContentFrame("a"), ContentFrame("b"), DoneFrame>>

\* C4 as stated: whenever the generator has run to its end, its last emitted
\* frame is the sentinel.
C4_AlwaysEndsWithSentinel ==
    gen = "finished" => (frames # <<>> /\ Last(frames) = DoneFrame)

\* C4 amended: when the generator has run to its end, its last frame is the
\* sentinel exactly when a message_stop event was consumed; otherwise no
\* sentinel was emitted at all.
C4_SentinelIffStopConsumed ==
    gen = "finished" =>
        LET stopSeen == \E i \in 1..consumed : StopAt(i)
        IN  /\ stopSeen => (frames # <<>> /\ Last(frames) = DoneFrame)
            /\ ~stopSeen => \A i \in DOMAIN frames : frames[i] # DoneFrame

C4_Witness ==
    /\ gen = "finished"
    /\ \E i \in 1..consumed : StopAt(i)
    /\ Len(frames) >= 2
    /\ Last(frames) = DoneFrame

\* C5: at most one error frame, always the last frame; a response without a
\* body gives exactly one error frame and nothing else; an exception while
\* iterating gives the content frames emitted so far, then one error frame,
\* no sentinel, and no further event is consumed.
C5_SingleTrailingErrorFrame ==
    /\ Len(FramesOfKind("error")) <= 1
    /\ \A i \in DOMAIN frames : frames[i].frame = "error" => i = Len(frames)
    /\ (invoke = "nobody" /\ gen \in {"yield_nobody", "finished"})
          => (frames = <<ErrorFrame(NoStreamMsg)>> /\ consumed = 0)
    /\ \A i \in 1..consumed : FailsAt(i) =>
          /\ i = consumed
          /\ gen \in {"yield_error", "finished", "closed"}
          /\ Len(frames) = Len(ConsumedTextEvents) + 1
          /\ Last(frames) = ErrorFrame(ExcMsg(events[i]))
          /\ \A j \in 1..(Len(frames) - 1) : frames[j].frame = "content"

C5_Witness ==
    /\ gen = "finished"
    /\ Len(frames) = 2
    /\ frames[1].frame = "content"
    /\ frames[2].frame = "error"
    /\ consumed < Len(events)

(***************************************************************************)
(* Claims about the credential resolver (checked under SpecAuth)           *)
(***************************************************************************)
\* a signal is set when the variable holds a non-empty value
SignalSet(e, n) == e[n] # Unset /\ e[n] # ""

\* the documented priority: bearer key > SSO profile > key pair > CLI default
DocumentedMethod(e) ==
    IF SignalSet(e, "AWS_BEARER_TOKEN_BEDROCK") THEN "bedrock_api_key"
    ELSE IF SignalSet(e, "AWS_PROFILE") THEN "sso_profile"
    ELSE IF SignalSet(e, "AWS_ACCESS_KEY_ID") /\ SignalSet(e, "AWS_SECRET_ACCESS_KEY")
         THEN "env_vars"
    ELSE "aws_cli"

\* the method picked by the last automatic detection
DetectedNow ==
    IF lastCall.op = "_detect_auth_method" THEN lastCall.detected ELSE auth.method

AutoDetected ==
    \/ lastCall.op = "_detect_auth_method"
    \/ lastCall.op = "authenticate" /\ lastCall.arg = NoMethod

\* C1: with no explicit method the detected method follows the documented
\* priority for every combination of the four signals; environments that
\* differ only in signals below a set one give the same method; a lone
\* access key or lone secret key never selects env_vars.
C1_DetectionPriority ==
    AutoDetected =>
        /\ DetectedNow = DocumentedMethod(env)
        /\ \A e2 \in Environments :
              (/\ SignalSet(env, "AWS_BEARER_TOKEN_BEDROCK")
               /\ e2["AWS_BEARER_TOKEN_BEDROCK"] = env["AWS_BEARER_TOKEN_BEDROCK"])
              => detect_auth_method(e2) = DetectedNow
        /\ \A e2 \in Environments :
              (/\ SignalSet(env, "AWS_PROFILE")
               /\ e2["AWS_BEARER_TOKEN_BEDROCK"] = env["AWS_BEARER_TOKEN_BEDROCK"]
               /\ e2["AWS_PROFILE"] = env["AWS_PROFILE"])
              => detect_auth_method(e2) = DetectedNow
        /\ (~SignalSet(env, "AWS_ACCESS_KEY_ID") \/ ~SignalSet(env, "AWS_SECRET_ACCESS_KEY"))
              => DetectedNow # "env_vars"

C1_Witness ==
    /\ lastCall.op = "_detect_auth_method"
    /\ \A n \in SignalNames : SignalSet(env, n)
    /\ lastCall.detected = "bedrock_api_key"

\* C7: authenticate returns a session only after the identity check passed on
\* it, and every failure of that identity check surfaces as NoCredentialsError
\* whatever the branch and whatever the identity call raised.
C7_VerifyFailureIsNoCredentials ==
    lastCall.op = "authenticate" =>
        /\ lastCall.raised = "none" => (lastCall.verify = "ok" /\ lastCall.ret.verified)
        /\ lastCall.verify \notin {"skipped", "ok"} => lastCall.raised = "NoCredentialsError"

(***************************************************************************)
(* Claims about the gateway process (checked under SpecGateway)            *)
(***************************************************************************)
\* the provider call of the chat completion being answered has failed
ProviderCallFailed ==
    \/ http.upstream = "failed"
    \/ http.kind = "stream" /\ invoke = "raise" /\ gen \in {"yield_error", "finished"}

\* C6: a chat completion whose provider call failed is answered with a non-2xx
\* status and an error body {detail: message}, for stream=false and stream=true.
C6_FailureIsNon2xx ==
    (req # NoRequest /\ ProviderCallFailed) =>
        /\ http.status \notin 200..299
        /\ http.kind = "error"
        /\ http.detail # ""

\* C8: in every run of the gateway process credential resolution (authenticate)
\* executes at most once.
C8_ResolveAtMostOnce == resolutions <= 1

(***************************************************************************)
(* Claims about request translation (checked under SpecRequests)           *)
(***************************************************************************)
HasSystemMessage(messages) == \E i \in DOMAIN messages : messages[i].role = "system"

\* C9: the provider request carries the content of the request's system
\* message in a top-level system field whenever there is a system message, and
\* no system message appears in the provider messages list.
C9_SystemFieldCarried ==
    provider_call.api # "none" =>
        /\ HasSystemMessage(req.messages) =>
              /\ "system" \in DOMAIN provider_call.body
              /\ \E i \in DOMAIN req.messages :
                    /\ req.messages[i].role = "system"
                    /\ provider_call.body.system = req.messages[i].content
        /\ \A j \in DOMAIN provider_call.body.messages :
              provider_call.body.messages[j].role # "system"

\* C10 as stated: the provider messages are the request's messages with the
\* system messages removed, whatever the other roles are.
C10_KeepsAllNonSystem ==
    provider_call.api # "none" =>
        provider_call.body.messages = SelectSeq(req.messages, LAMBDA m : m.role # "system")

\* C10 amended: the provider messages are the request's messages whose role is
\* user or assistant, with role and content kept, in the same relative order;
\* system messages and messages of any other role are removed.
C10_KeepsUserAndAssistant ==
    provider_call.api # "none" =>
        LET kept == SelectSeq(req.messages, LAMBDA m : m.role \in {"user", "assistant"})
            out == provider_call.body.messages
        IN  /\ Len(out) = Len(kept)
            /\ \A i \in DOMAIN out :
                  /\ out[i].role = kept[i].role
                  /\ out[i].content = kept[i].content

C10_Witness ==
    /\ provider_call.api # "none"
    /\ req.messages = <<[role |-> "tool", content |-> "x"], [role |-> "user", content |-> "y"]>>
    /\ provider_call.body.messages = <<[role |-> "user", content |-> "y"]>>

\* C11: in the provider request max_tokens is the request's value, or 4096
\* when absent; temperature is the request's; top_p is present exactly when
\* the request supplies top_p (0 included); stop_sequences is present exactly
\* when the request supplies stop.
C11_OptionalFieldsCarried ==
    provider_call.api # "none" =>
        LET body == provider_call.body
        IN  /\ body.max_tokens = (IF req.max_tokens = None THEN 4096 ELSE req.max_tokens[1])
            /\ body.temperature = req.temperature
            /\ ("top_p" \in DOMAIN body) <=> (req.top_p # None)
            /\ ("top_p" \in DOMAIN body) => body.top_p = req.top_p[1]
            /\ ("stop_sequences" \in DOMAIN body) <=> (req.stop # None)


(***************************************************************************)
(* Claims about response translation (checked under SpecResponse)          *)
(***************************************************************************)
\* the texts of a sequence of blocks joined front to back
RECURSIVE JoinTexts(_)
JoinTexts(blocks) ==
    IF blocks = <<>> THEN "" ELSE Head(blocks).text \o JoinTexts(Tail(blocks))

CountOrZero(response, key) ==
    IF response.usage = <<>> THEN 0
    ELSE IF response.usage[1][key] = <<>> THEN 0
    ELSE response.usage[1][key][1]

Translated == provider_call.api = "invoke_model" /\ http.status = 200

\* C12: the translated response has exactly one choice (index 0, role
\* assistant, finish_reason stop) whose content is the in-order concatenation
\* of the text-typed blocks (empty when there are none), model is the client's
\* model id, and usage.total_tokens = prompt_tokens + completion_tokens with
\* the counts the provider's input_tokens and output_tokens, 0 when absent.
C12_ResponseTranslation ==
    Translated =>
        LET resp == provider_call.response
            out == http.body
            texts == IF resp.content = <<>> THEN <<>>
                     ELSE SelectSeq(resp.content[1], LAMBDA b : b.type = "text")
        IN  /\ Len(out.choices) = 1
            /\ out.choices[1].index = 0
            /\ out.choices[1].message.role = "assistant"
            /\ out.choices[1].finish_reason = "stop"
            /\ out.choices[1].message.content = JoinTexts(texts)
            /\ out.model = req.model
            /\ out.usage.prompt_tokens = CountOrZero(resp, "input_tokens")
            /\ out.usage.completion_tokens = CountOrZero(resp, "output_tokens")
            /\ out.usage.total_tokens = out.usage.prompt_tokens + out.usage.completion_tokens

C12_Witness ==
    /\ Translated
    /\ provider_call.response.content =
          <<(<<[type |-> "text", text |-> "h"], [type |-> "text", text |-> "i"]>>)>>
    /\ provider_call.response.usage = <<[input_tokens |-> <<5>>, output_tokens |-> <<>>]>>
    /\ http.body.choices[1].message.content = "hi"
    /\ http.body.usage.total_tokens = 5


\* the documented alias table
AliasOf(x) ==
    CASE x = <<"claude-sonnet-4.5">> -> <<"anthropic.claude", "-sonnet-4-5-20250929-v1:0">>
      [] x = <<"claude-haiku-4.5">> -> <<"anthropic.claude", "-haiku-4-5-20251001-v1:0">>
      [] x = <<"gpt-4">> -> <<"anthropic.claude", "-sonnet-4-5-20250929-v1:0">>
      [] x = <<"gpt-3.5-turbo">> -> <<"anthropic.claude", "-haiku-4-5-20251001-v1:0">>
      [] OTHER -> <<>>

ContainsMarker(x) == \E i \in DOMAIN x : x[i] = "anthropic.claude"

\* C13: the mapped id is the client's id when that contains the marker
\* anthropic.claude, otherwise its alias-table entry, otherwise the default
\* sonnet id; the result always contains the marker, and mapping it again
\* changes nothing.
C13_MapTotalIdempotent ==
    provider_call.api # "none" =>
        LET x == req.model
            y == provider_call.modelId
        IN  /\ ContainsMarker(x) => y = x
            /\ (~ContainsMarker(x) /\ AliasOf(x) # <<>>) => y = AliasOf(x)
            /\ (~ContainsMarker(x) /\ AliasOf(x) = <<>>)
                  => y = <<"anthropic.claude", "-sonnet-4-5-20250929-v1:0">>
            /\ ContainsMarker(y)
            /\ map_model_name(y) = y

C13_Witness ==
    /\ provider_call.api # "none"
    /\ req.model = <<"gpt-4", "-turbo">>
    /\ provider_call.modelId = <<"anthropic.claude", "-sonnet-4-5-20250929-v1:0">>


(***************************************************************************)
(* Claims about the usage tracker                                          *)
(***************************************************************************)
\* C14: a chat completion answered with a ChatCompletionResponse has caused
\* exactly one record on the tracker, carrying the call's provider model id and
\* its input and output token counts; a failed call has recorded nothing.
C14_CompletionRecordedOnce ==
    /\ Translated =>
          /\ Len(usage_history) = 1
          /\ Len(cost_history) = 1
          /\ cost_history[1].model_id = provider_call.modelId
          /\ usage_history[1].input_tokens = http.body.usage.prompt_tokens
          /\ usage_history[1].output_tokens = http.body.usage.completion_tokens
    /\ (req # NoRequest /\ ~Translated) => (usage_history = <<>> /\ cost_history = <<>>)

\* C15: every TokenUsage in usage_history has total_tokens = input_tokens +
\* output_tokens, every CostMetrics in cost_history has total_cost = input_cost
\* + output_cost, and a get_total_usage report has total_tokens =
\* total_input_tokens + total_output_tokens.
C15_TotalsAreSums ==
    /\ \A i \in DOMAIN usage_history :
          usage_history[i].total_tokens =
              usage_history[i].input_tokens + usage_history[i].output_tokens
    /\ \A i \in DOMAIN cost_history :
          cost_history[i].total_cost =
              cost_history[i].input_cost + cost_history[i].output_cost
    /\ lastQuery.op = "get_total_usage" =>
          lastQuery.total = lastQuery.total_input + lastQuery.total_output

C15_Witness ==
    /\ Len(usage_history) = 2
    /\ Len(cost_history) = 2
    /\ usage_history[1].total_tokens = 1000000
    /\ usage_history[2].total_tokens = 2000
    /\ cost_history[1].total_cost = 300000000
    /\ lastQuery.op = "get_total_usage"
    /\ lastQuery.request_count = 2
    /\ lastQuery.total = 1002000

\* the prices the cost of a model id is to be computed with
DesignatedPrices(model_id) ==
    CASE model_id = SonnetId -> [input |-> 300, output |-> 1500]
      [] OTHER -> [input |-> 25, output |-> 125]

IsPrefix(s, t) == Len(s) <= Len(t) /\ SubSeq(t, 1, Len(s)) = s

\* C16: each record_usage call appends exactly one entry at the end of
\* usage_history and one at the end of cost_history and leaves the earlier
\* entries unchanged; it completes for every model id, a model id absent from
\* the price table being costed with the default (haiku) model's prices;
\* get_total_usage and get_total_cost leave both histories unchanged.
C16_AppendOnlyWithFallback ==
    [][ /\ IsPrefix(usage_history, usage_history')
        /\ IsPrefix(cost_history, cost_history')
        /\ \A c \in Callers :
              /\ (calls[c].at # "costing" /\ calls'[c].at = "costing") =>
                    /\ usage_history' = Append(usage_history, calls'[c].usage)
                    /\ calls'[c].usage.input_tokens = calls'[c].args.input_tokens
                    /\ calls'[c].usage.output_tokens = calls'[c].args.output_tokens
                    /\ cost_history' = cost_history
              /\ calls[c].at = "costing" =>
                    ENABLED RecordUsageFinish(c)
              /\ (calls[c].at = "costing" /\ calls'[c].at = "returned") =>
                    LET a == calls[c].args
                        entry == calls'[c].cost
                    IN  /\ cost_history' = Append(cost_history, entry)
                        /\ usage_history' = usage_history
                        /\ entry.model_id = a.model_id
                        /\ entry.input_cost =
                              a.input_tokens * DesignatedPrices(a.model_id).input
                        /\ entry.output_cost =
                              a.output_tokens * DesignatedPrices(a.model_id).output
                        /\ PRICING(a.model_id) = None =>
                              /\ entry.input_cost =
                                    calculate_cost(HaikuId, a.input_tokens,
                                                   a.output_tokens).input_cost
                              /\ entry.output_cost =
                                    calculate_cost(HaikuId, a.input_tokens,
                                                   a.output_tokens).output_cost
        /\ lastQuery' # lastQuery =>
              (usage_history' = usage_history /\ cost_history' = cost_history)
      ]_vars

C16_Witness ==
    /\ Len(usage_history) = 2
    /\ Len(cost_history) = 2
    /\ cost_history[2].model_id = UnknownModel
    /\ cost_history[2].input_cost = 25000
    /\ cost_history[2].output_cost = 125000
    /\ lastQuery.op = "get_total_cost"
    /\ lastQuery.request_count = 2


(***************************************************************************)
(* Further claims about the authenticator (checked under SpecAuth)         *)
(***************************************************************************)
\* C17: _authenticate_with_env_vars fails with ValueError, and constructs no
\* session, whenever AWS_ACCESS_KEY_ID or AWS_SECRET_ACCESS_KEY is missing
\* from the environment.
C17_MissingKeyIsValueError ==
    (/\ lastCall.op = "_authenticate_with_env_vars"
     /\ Unset \in {env["AWS_ACCESS_KEY_ID"], env["AWS_SECRET_ACCESS_KEY"]}) =>
        /\ lastCall.raised = "ValueError"
        /\ lastCall.ret = NoSession

\* the construction branch a method selects in authenticate, by the kind of
\* session it builds (the API-key branch builds a default-chain session)
BranchOf(method) ==
    CASE method = "sso_profile" -> "profile"
      [] method = "env_vars" -> "env"
      [] method \in {"aws_cli", "bedrock_api_key"} -> "cli"
      [] OTHER -> "none"

\* C18: whenever the authenticator holds a session, its method is the method
\* whose construction branch built that session.
C18_MethodBuiltHeldSession ==
    auth.session # NoSession => auth.session.branch = BranchOf(auth.method)

\* C19: a client is only ever returned from a session whose verification call
\* succeeded; after an authenticate that failed during verification,
\* get_bedrock_client does not hand out a client of the unverified session.
C19_ClientOnlyFromVerifiedSession ==
    (lastCall.op = "get_bedrock_client" /\ lastCall.raised = "none") =>
        lastCall.ret.verified


(***************************************************************************)
(* Further claims about the stream (checked under SpecStream)              *)
(***************************************************************************)
\* the generator has exited: it returned, or the consumer closed it
StreamExited == gen \in {"finished", "closed"}

\* C20: on every exit path of stream_bedrock_response (after the sentinel,
\* after the provider stream is exhausted, after an exception during
\* iteration, after the generator is closed mid-stream) the provider stream
\* has been released.
C20_StreamReleasedOnExit == StreamExited => ~stream_open


\* an authenticate call has just resolved to, or been given, BEDROCK_API_KEY
ApiKeyAuthenticateStep ==
    /\ lastCall'.op = "authenticate"
    /\ auth'.method = "bedrock_api_key"

\* C21: authenticate with method BEDROCK_API_KEY and the bearer-key signal set
\* warns that the key is not honoured, then builds the session exactly as the
\* AWS_CLI branch does (same region, same identity check, same outcome), the
\* recorded method staying BEDROCK_API_KEY; with the signal unset it fails
\* with ValueError and constructs no session.
C21_ApiKeyFallsBackToCli ==
    [][ ApiKeyAuthenticateStep =>
          IF Truthy(env["AWS_BEARER_TOKEN_BEDROCK"])
          THEN /\ lastCall'.warned
               /\ \E cons \in StsOutcomes, ver \in StsOutcomes :
                     LET cli == authenticate(auth, "aws_cli", env, cons, ver)
                     IN  /\ auth'.session = cli.self.session
                         /\ lastCall'.raised = cli.raised
                         /\ lastCall'.ret = cli.ret
                         /\ lastCall'.verify = cli.verify
               /\ lastCall'.raised = "none" =>
                     lastCall'.ret = [branch |-> "cli", region |-> auth.region,
                                      verified |-> TRUE]
          ELSE /\ lastCall'.raised = "ValueError"
               /\ lastCall'.ret = NoSession
               /\ lastCall'.verify = "skipped"
               /\ ~lastCall'.warned
               /\ auth'.session = auth.session
      ]_vars

C21_Witness ==
    /\ lastCall.op = "authenticate"
    /\ lastCall.arg = NoMethod
    /\ Truthy(env["AWS_BEARER_TOKEN_BEDROCK"])
    /\ Truthy(env["AWS_PROFILE"])
    /\ auth.method = "bedrock_api_key"
    /\ lastCall.warned
    /\ lastCall.raised = "none"
    /\ auth.session = [branch |-> "cli", region |-> DefaultRegion, verified |-> TRUE]

\* the unset half of C21 has happened: an explicit BEDROCK_API_KEY call failed
C21_UnsetReached ==
    /\ lastCall.op = "authenticate"
    /\ lastCall.arg = "bedrock_api_key"
    /\ ~Truthy(env["AWS_BEARER_TOKEN_BEDROCK"])
    /\ lastCall.raised = "ValueError"


\* no record_usage call is between its two appends
Quiescent == \A c \in Callers : calls[c].at # "costing"

C22_SameLength == Quiescent => Len(usage_history) = Len(cost_history)

C22_SameIndex ==
    \A c \in Callers : calls[c].at = "returned" => calls[c].usage_at = calls[c].cost_at

C22_SameCount ==
    Quiescent =>
        \A days \in QueryDays :
            get_total_usage(usage_history, days, clock).request_count =
                get_total_cost(cost_history, days, clock).request_count

\* C22: once the record_usage calls made so far have returned, usage_history
\* and cost_history have the same length, the two entries of each request sit
\* at the same index, and for every window get_total_usage and get_total_cost,
\* asked at the same instant, report the same request_count.
C22_LogsAligned == C22_SameLength /\ C22_SameIndex /\ C22_SameCount

====
